---- MODULE Spec2Model ----
(***************************************************************************)
(* A model of the caption server: the word-translation cache               *)
(* (translate_sub_words), the machine-translated track writer              *)
(* (translate_sub_file), the captions route, the memoized dictionary       *)
(* loader (load_dictionary) and the tokenizer dispatch (Tagger.new).       *)
(*                                                                         *)
(* Strings are tuples of code points (<<97, 98>> is "ab"), so that         *)
(* sorting, joining, prefix tests and hashing are computed, not assumed.   *)
(***************************************************************************)
EXTENDS Integers, Sequences, FiniteSets, TLC

\* ------------------------------------------------------------------------
\* Bounds of the model
\* ------------------------------------------------------------------------

\* Longest word list handed to one translate_sub_words call.
MaxWords == 2

\* Number of translate_sub_words calls in one behaviour.
MaxCalls == 2

\* ------------------------------------------------------------------------
\* Strings
\* ------------------------------------------------------------------------

None == "None"

\* Python's str comparison: lexicographic by code point, a proper prefix first.
RECURSIVE StrLess(_, _)
StrLess(s, t) ==
    IF t = <<>> THEN FALSE
    ELSE IF s = <<>> THEN TRUE
    ELSE IF Head(s) # Head(t) THEN Head(s) < Head(t)
    ELSE StrLess(Tail(s), Tail(t))

\* sorted(S) for a set of strings.
RECURSIVE Sorted(_)
Sorted(S) ==
    IF S = {} THEN <<>>
    ELSE LET m == CHOOSE x \in S : \A y \in S : y = x \/ StrLess(x, y)
         IN  <<m>> \o Sorted(S \ {m})

\* ''.join(seq)
RECURSIVE Join(_)
Join(seq) == IF seq = <<>> THEN <<>> ELSE Head(seq) \o Join(Tail(seq))

\* s.startswith(prefix)
StartsWith(s, prefix) ==
    /\ Len(s) >= Len(prefix)
    /\ SubSeq(s, 1, Len(prefix)) = prefix

\* str.encode(): UTF-8, one byte below U+0080 and two bytes below U+0800.
RECURSIVE Utf8Encode(_)
Utf8Encode(s) ==
    IF s = <<>> THEN <<>>
    ELSE LET c == Head(s)
         IN  (IF c < 128 THEN <<c>>
              ELSE <<192 + (c \div 64), 128 + (c % 64)>>) \o Utf8Encode(Tail(s))

\* ------------------------------------------------------------------------
\* Tagger (nlp/tagger.py).  Language codes are tuples of characters.
\* ------------------------------------------------------------------------

EN == <<"e", "n">>
DE == <<"d", "e">>
FR == <<"f", "r">>
ES == <<"e", "s">>
IT == <<"i", "t">>
NL == <<"n", "l">>
PL == <<"p", "l">>
JA == <<"j", "a">>
ZH == <<"z", "h">>
KO == <<"k", "o">>

\* Tagger.LANGUAGES
LANGUAGES ==
    {EN, EN \o <<"-", "U", "S">>, EN \o <<"-", "G", "B">>,
     DE, FR, ES, IT, NL, PL, JA,
     ZH \o <<"-", "C", "N">>, ZH \o <<"-", "T", "W">>}

\* Tagger.new with == in place of startswith.
Tagger_new_exact(lang) ==
    IF lang \in {DE, FR, ES, IT, NL, PL}
    THEN [tagger |-> "SpacyTagger", model |-> lang]
    ELSE IF lang = EN
    THEN [tagger |-> "SpacyTagger", model |-> EN]
    ELSE IF lang = ZH
    THEN [tagger |-> "ChineseTagger", model |-> <<>>]
    ELSE IF lang = JA
    THEN [tagger |-> "JapaneseTagger", model |-> <<>>]
    ELSE [tagger |-> "Exception", model |-> lang]

\* Tagger.new(lang): the tagger constructed, or the Exception
\* 'Unsupported language' raised.
Tagger_new(lang) ==
    IF lang \in {DE, FR, ES, IT, NL, PL}
    THEN [tagger |-> "SpacyTagger", model |-> lang]
    ELSE IF StartsWith(lang, EN)
    THEN [tagger |-> "SpacyTagger", model |-> EN]
    ELSE IF StartsWith(lang, ZH)
    THEN [tagger |-> "ChineseTagger", model |-> <<>>]
    ELSE IF lang = JA
    THEN [tagger |-> "JapaneseTagger", model |-> <<>>]
    ELSE [tagger |-> "Exception", model |-> lang]

\* ------------------------------------------------------------------------
\* hashlib.md5 (RFC 1321) on messages of one block.  A 32-bit word is a
\* tuple of 32 bits, least significant first.
\* ------------------------------------------------------------------------

RECURSIVE BitsOf(_, _)
BitsOf(n, width) ==
    IF width = 0 THEN <<>> ELSE <<n % 2>> \o BitsOf(n \div 2, width - 1)

\* The word whose high and low 16-bit halves are hi and lo.
Word32(hi, lo) == BitsOf(lo, 16) \o BitsOf(hi, 16)

\* A function over 1..n as a tuple (evaluated once, not at every use).
Tuple(f) == f \o <<>>

BitAnd(x, y) == Tuple([i \in 1..32 |-> x[i] * y[i]])
BitOr(x, y)  == Tuple([i \in 1..32 |-> IF x[i] + y[i] > 0 THEN 1 ELSE 0])
BitXor(x, y) == Tuple([i \in 1..32 |-> (x[i] + y[i]) % 2])
BitNot(x)    == Tuple([i \in 1..32 |-> 1 - x[i]])

\* Addition modulo 2^32.
RECURSIVE AddCarry(_, _, _, _)
AddCarry(x, y, i, carry) ==
    IF i > 32 THEN <<>>
    ELSE LET t == x[i] + y[i] + carry
         IN  <<t % 2>> \o AddCarry(x, y, i + 1, t \div 2)

Add32(x, y) == AddCarry(x, y, 1, 0)

\* Rotation to the left by n bits.
RotL(x, n) == Tuple([i \in 1..32 |-> x[((i - 1 - n + 32) % 32) + 1]])

Md5Shift ==
    <<7, 12, 17, 22, 7, 12, 17, 22, 7, 12, 17, 22, 7, 12, 17, 22,
      5, 9, 14, 20, 5, 9, 14, 20, 5, 9, 14, 20, 5, 9, 14, 20,
      4, 11, 16, 23, 4, 11, 16, 23, 4, 11, 16, 23, 4, 11, 16, 23,
      6, 10, 15, 21, 6, 10, 15, 21, 6, 10, 15, 21, 6, 10, 15, 21>>

\* floor(2^32 * abs(sin(i))) for i = 1..64, as <<high half, low half>>.
Md5Sine ==
    << <<55146, 42104>>, <<59591, 46934>>, <<9248, 28891>>, <<49597, 52974>>,
       <<62844, 4015>>, <<18311, 50730>>, <<43056, 17939>>, <<64838, 38145>>,
       <<27008, 39128>>, <<35652, 63407>>, <<65535, 23473>>, <<35164, 55230>>,
       <<27536, 4386>>, <<64920, 29075>>, <<42617, 17294>>, <<18868, 2081>>,
       <<63006, 9570>>, <<49216, 45888>>, <<9822, 23121>>, <<59830, 51114>>,
       <<54831, 4189>>, <<580, 5203>>, <<55457, 59009>>, <<59347, 64456>>,
       <<8673, 52710>>, <<49975, 2006>>, <<62677, 3463>>, <<17754, 5357>>,
       <<43491, 59653>>, <<64751, 41976>>, <<26479, 729>>, <<36138, 19594>>,
       <<65530, 14658>>, <<34673, 63105>>, <<28061, 24866>>, <<64997, 14348>>,
       <<42174, 59972>>, <<19422, 53161>>, <<63163, 19296>>, <<48831, 48240>>,
       <<10395, 32454>>, <<60065, 10234>>, <<54511, 12421>>, <<1160, 7429>>,
       <<55764, 53305>>, <<59099, 39397>>, <<8098, 31992>>, <<50348, 22117>>,
       <<62505, 8772>>, <<17194, 65431>>, <<43924, 9127>>, <<64659, 41017>>,
       <<25947, 22979>>, <<36620, 52370>>, <<65519, 62589>>, <<34180, 24017>>,
       <<28584, 32335>>, <<65068, 59104>>, <<41729, 17172>>, <<19976, 4513>>,
       <<63315, 32386>>, <<48442, 62005>>, <<10967, 53947>>, <<60294, 54161>> >>

\* The padded block: the message, 0x80, zeros, and the bit length in the
\* 57th and 58th bytes (messages here are shorter than 56 bytes).
Md5Block(bytes) ==
    Tuple([i \in 1..64 |->
        IF i <= Len(bytes) THEN bytes[i]
        ELSE IF i = Len(bytes) + 1 THEN 128
        ELSE IF i = 57 THEN (8 * Len(bytes)) % 256
        ELSE IF i = 58 THEN (8 * Len(bytes)) \div 256
        ELSE 0])

\* The g-th little-endian word of the block, g = 0..15.
Md5Chunk(block, g) ==
    BitsOf(block[4 * g + 1], 8) \o BitsOf(block[4 * g + 2], 8)
        \o BitsOf(block[4 * g + 3], 8) \o BitsOf(block[4 * g + 4], 8)

\* One of the 64 operations on the state st = <<A, B, C, D>>, i = 0..63.
Md5Step(st, block, i) ==
    LET A == st[1]
        B == st[2]
        C == st[3]
        D == st[4]
        F == IF i < 16 THEN BitOr(BitAnd(B, C), BitAnd(BitNot(B), D))
             ELSE IF i < 32 THEN BitOr(BitAnd(D, B), BitAnd(BitNot(D), C))
             ELSE IF i < 48 THEN BitXor(B, BitXor(C, D))
             ELSE BitXor(C, BitOr(B, BitNot(D)))
        g == IF i < 16 THEN i
             ELSE IF i < 32 THEN (5 * i + 1) % 16
             ELSE IF i < 48 THEN (3 * i + 5) % 16
             ELSE (7 * i) % 16
        K == Word32(Md5Sine[i + 1][1], Md5Sine[i + 1][2])
        sum == Add32(Add32(F, A), Add32(K, Md5Chunk(block, g)))
    IN  <<D, Add32(B, RotL(sum, Md5Shift[i + 1])), B, C>>

\* The operations i..63 applied in turn to a state of four words.
RECURSIVE Md5Rounds(_, _, _)
Md5Rounds(st, block, i) ==
    IF i > 63 \/ Len(st) # 4 THEN st
    ELSE Md5Rounds(Md5Step(st, block, i), block, i + 1)

\* The hexadecimal digits (0..15) of the bytes of a word, low byte first.
RECURSIVE HexOfBits(_)
HexOfBits(bits) ==
    IF bits = <<>> THEN <<>>
    ELSE <<bits[5] + 2 * bits[6] + 4 * bits[7] + 8 * bits[8],
           bits[1] + 2 * bits[2] + 4 * bits[3] + 8 * bits[4]>>
         \o HexOfBits(SubSeq(bits, 9, Len(bits)))

\* hashlib.md5(bytes).hexdigest(), as a tuple of 32 hexadecimal digits.
Md5HexDigest(bytes) ==
    LET init == <<Word32(26437, 8961), Word32(61389, 43913),
                  Word32(39098, 56574), Word32(4146, 21622)>>
        block == Md5Block(bytes)
        fin == Md5Rounds(init, block, 0)
    IN  HexOfBits(Add32(init[1], fin[1])) \o HexOfBits(Add32(init[2], fin[2]))
          \o HexOfBits(Add32(init[3], fin[3])) \o HexOfBits(Add32(init[4], fin[4]))

\* The default of md5_hash's length parameter.
HashLength == 8

\* md5_hash(s): the first HashLength hexadecimal digits of the digest.
md5_hash(s) == SubSeq(Md5HexDigest(Utf8Encode(s)), 1, HashLength)

\* ------------------------------------------------------------------------
\* Inputs of the word-translation cache
\* ------------------------------------------------------------------------

\* Part-of-speech and word inputs.

\* Word texts: "a", "b" and "ab" ("a" followed by "b" reads as "ab").
Texts == {<<97>>, <<98>>, <<97, 98>>}

\* Part-of-speech tags a tokenizer can attach; DET is outside the set that
\* word lookup accepts.
Tags == {"NOUN", "DET"}

\* The (text, tag) pairs of a request and the lists of them.
Words == Texts \X Tags
WordLists == UNION {[1..n -> Words] : n \in 0..MaxWords}

VideoDirs == {<<"cache", "v1">>, <<"cache", "v2">>}
LangPairs == {<<EN, ES>>, <<ZH, EN>>}

\* What the translation backend does with one lookup.
Answers == {"ok", "raise"}

Range(f) == {f[i] : i \in DOMAIN f}

\* ------------------------------------------------------------------------
\* Translator (nlp.translate.Translator)
\* ------------------------------------------------------------------------

\* The tags word lookup accepts.
AllowedTags == {"NOUN", "ADJ", "VERB", "PRON", "ADV", "PROPN", "ADP"}

\* Translator.new(src, dst): the dictionary-backed translator for Chinese to
\* English, the phrase-service translator otherwise.
Translator_new(src, dst) ==
    [src |-> src, dst |-> dst,
     kind |-> IF StartsWith(src, ZH) /\ StartsWith(dst, EN)
              THEN "dictionary" ELSE "phrase"]

\* translator.word(w, tag), the backend answering `answer`: raises for a tag
\* outside AllowedTags, raises when the backend has no entry or fails, and
\* returns the translation otherwise.
Translator_word(translator, w, tag, answer) ==
    IF tag \notin AllowedTags
    THEN [raised |-> TRUE, value |-> "UnsupportedPartOfSpeechError"]
    ELSE IF answer = "raise"
    THEN [raised |-> TRUE,
          value |-> IF translator.kind = "dictionary"
                    THEN "NotFoundError" ELSE "ServiceError"]
    ELSE [raised |-> FALSE, value |-> <<translator.dst, w>>]

\* ------------------------------------------------------------------------
\* Python dicts (insertion-ordered) and their JSON form
\* ------------------------------------------------------------------------

\* A dict is a tuple of <<key, value>> pairs with distinct keys.
DictKeys(d) == {d[i][1] : i \in DOMAIN d}

DictGet(d, k) == LET i == CHOOSE j \in DOMAIN d : d[j][1] = k IN d[i][2]

\* d[k] = v: replaces the value of a key already present, appends otherwise.
DictSet(d, k, v) ==
    IF k \in DictKeys(d)
    THEN [i \in DOMAIN d |-> IF d[i][1] = k THEN <<k, v>> ELSE d[i]]
    ELSE Append(d, <<k, v>>)

\* A JSON value: None is written null, a str is written quoted.
JsonEncodeValue(v) == IF v = None THEN <<"null">> ELSE <<"string", v>>
JsonDecodeValue(j) == IF j = <<"null">> THEN None ELSE j[2]

\* json.dump(d): the text as a tuple of tokens, "{", one member per key in
\* insertion order, "}".
json_dump(d) ==
    <<"{">> \o [i \in DOMAIN d |-> <<"member", d[i][1], JsonEncodeValue(d[i][2])>>]
            \o <<"}">>

JsonWellFormed(text) ==
    /\ Len(text) >= 2
    /\ text[1] = "{"
    /\ text[Len(text)] = "}"
    /\ \A i \in 2..(Len(text) - 1) : text[i] # "{" /\ text[i] # "}"

\* json.load(f): the dict, or JSONDecodeError for a text that is not a
\* complete object.
RECURSIVE JsonMembers(_, _)
JsonMembers(members, d) ==
    IF members = <<>> THEN d
    ELSE JsonMembers(Tail(members),
                     DictSet(d, Head(members)[2], JsonDecodeValue(Head(members)[3])))

json_load(text) ==
    IF JsonWellFormed(text)
    THEN JsonMembers(SubSeq(text, 2, Len(text) - 1), <<>>)
    ELSE "JSONDecodeError"

\* ------------------------------------------------------------------------
\* translate_sub_words
\* ------------------------------------------------------------------------

\* Every string the model hashes is a concatenation of at most MaxWords texts.
HashInputs == {Join(l) : l \in UNION {[1..n -> Texts] : n \in 0..MaxWords}}

\* md5_hash over HashInputs, computed once.
Md5Memo == [s \in HashInputs |-> md5_hash(s)]

\* The word texts in request order, neither de-duplicated nor sorted.
tokens_in_request_order(words) == [i \in DOMAIN words |-> words[i][1]]

\* tokens = list(sorted(set(w[0] for w in words)))
tokens(words) == Sorted({w[1] : w \in Range(words)})

\* os.path.join(video_dir, 'cached', '{}.{}.{}.json'.format(...)): the path
\* as its components (language codes and hashes hold no '.' and no '/').
get_translation_cache_path(video_dir, src_lang, dst_lang, content_hash) ==
    <<video_dir, "cached", <<src_lang, dst_lang, content_hash, "json">> >>

\* The cache path translate_sub_words computes for a request.
cache_path(video_dir, words, src_lang, dst_lang) ==
    get_translation_cache_path(video_dir, src_lang, dst_lang,
                               Md5Memo[Join(tokens(words))])

\* The loop with the try around it instead of in it: the first lookup that
\* raises ends the loop.
RECURSIVE TranslateWordsUntilError(_, _, _, _)
TranslateWordsUntilError(translator, words, answers, trans_dict) ==
    IF words = <<>> THEN trans_dict
    ELSE LET w == Head(words)[1]
             r == Translator_word(translator, w, Head(words)[2], Head(answers))
         IN  IF r.raised THEN trans_dict
             ELSE TranslateWordsUntilError(translator, Tail(words), Tail(answers),
                                           DictSet(trans_dict, w, r.value))

\* The loop of translate_sub_words over the remaining words: a lookup that
\* raises is logged and leaves trans_dict as it is.
RECURSIVE TranslateWords(_, _, _, _)
TranslateWords(translator, words, answers, trans_dict) ==
    IF words = <<>> THEN trans_dict
    ELSE LET w == Head(words)[1]
             r == Translator_word(translator, w, Head(words)[2], Head(answers))
         IN  TranslateWords(translator, Tail(words), Tail(answers),
                            IF r.raised THEN trans_dict
                            ELSE DictSet(trans_dict, w, r.value))

\* translate_sub_words without the os.path.exists test: it translates and
\* writes at every call.
translate_sub_words_uncached(files, video_dir, words, src_lang, dst_lang, answers) ==
    LET path == cache_path(video_dir, words, src_lang, dst_lang)
        translator == Translator_new(src_lang, dst_lang)
        trans_dict == TranslateWords(translator, words, answers, <<>>)
    IN  [files |-> (path :> json_dump(trans_dict)) @@ files,
         path |-> path, cached |-> path \in DOMAIN files,
         trans_dict |-> trans_dict,
         new_calls |-> 1, word_calls |-> Len(words)]

\* translate_sub_words(video_dir, words, src_lang, dst_lang) on the cache
\* files `files`, the backend answering answers[i] to the i-th lookup.
\* Yields the files afterwards, the returned dict and the translator calls.
translate_sub_words(files, video_dir, words, src_lang, dst_lang, answers) ==
    LET path == cache_path(video_dir, words, src_lang, dst_lang)
    IN  IF path \in DOMAIN files
        THEN [files |-> files, path |-> path, cached |-> TRUE,
              trans_dict |-> json_load(files[path]),
              new_calls |-> 0, word_calls |-> 0]
        ELSE LET translator == Translator_new(src_lang, dst_lang)
                 trans_dict == TranslateWords(translator, words, answers, <<>>)
             IN  [files |-> (path :> json_dump(trans_dict)) @@ files,
                  path |-> path, cached |-> FALSE,
                  trans_dict |-> trans_dict,
                  new_calls |-> 1, word_calls |-> Len(words)]

\* ------------------------------------------------------------------------
\* State
\* ------------------------------------------------------------------------

VARIABLES
    cacheFiles,   \* the cached/ files of all videos: path -> JSON text
    committed,    \* history: path -> the request and dict of the call that wrote it
    resolved,     \* the last translate_sub_words call and what it returned
    ncalls,       \* translate_sub_words calls so far
    threads,      \* request threads inside translate_sub_words: their locals
    translated,   \* the translated/ files of the video: language -> track
    served,       \* the last /captions request and its response
    tagged,       \* the last Tagger.new call and its outcome
    lru,          \* lru_cache of load_dictionary: entries, least recent first
    loaded,       \* the last load_dictionary call and its outcome
    builds,       \* history: (src, dst) -> times its dictionary was built
    uses,         \* history: the pairs load_dictionary returned, in call order
    nfresh,       \* pairs of LoadOrder requested so far
    nreloads      \* repeated requests so far

cacheVars == <<cacheFiles, committed, resolved, ncalls, threads>>
captionVars == <<translated, served>>
dictVars == <<lru, loaded, builds, uses, nfresh, nreloads>>
vars == <<cacheFiles, committed, resolved, ncalls, threads, translated, served,
          tagged, lru, loaded, builds, uses, nfresh, nreloads>>

NoFiles == [p \in {} |-> <<>>]

NoCall ==
    [kind |-> "none", video_dir |-> <<>>, words |-> <<>>, src_lang |-> <<>>,
     dst_lang |-> <<>>, answers |-> <<>>, path |-> <<>>, cached |-> FALSE,
     trans_dict |-> <<>>, new_calls |-> 0, word_calls |-> 0]

\* The request threads of the server (app.run serves requests in threads).
Threads == {"t1", "t2"}

Idle ==
    [pc |-> "idle", words |-> <<>>, src_lang |-> <<>>, dst_lang |-> <<>>,
     path |-> <<>>, translator |-> <<>>, next |-> 0, trans_dict |-> <<>>,
     out |-> <<>>, pos |-> 0]

InitCache ==
    /\ cacheFiles = NoFiles
    /\ committed = NoFiles
    /\ resolved = NoCall
    /\ ncalls = 0
    /\ threads = [t \in Threads |-> Idle]

\* The backend's answers to the lookups of `words`, one per word; it is not
\* asked about a word whose tag the translator refuses.
WordAnswers(words) ==
    {a \in [1..Len(words) -> Answers] :
        \A i \in 1..Len(words) :
            words[i][2] \notin AllowedTags => a[i] = "raise"}

\* One whole translate_sub_words call.
Resolve ==
    /\ ncalls < MaxCalls
    /\ \E video_dir \in VideoDirs, words \in WordLists, langs \in LangPairs :
         \E answers \in WordAnswers(words) :
            LET r == translate_sub_words(cacheFiles, video_dir, words,
                                         langs[1], langs[2], answers)
            IN  /\ cacheFiles' = r.files
                /\ committed' =
                     IF r.cached THEN committed
                     ELSE (r.path :> [words |-> words,
                                      texts |-> {w[1] : w \in Range(words)},
                                      trans_dict |-> r.trans_dict]) @@ committed
                /\ resolved' =
                     [kind |-> "call", video_dir |-> video_dir, words |-> words,
                      src_lang |-> langs[1], dst_lang |-> langs[2],
                      answers |-> answers, path |-> r.path, cached |-> r.cached,
                      trans_dict |-> r.trans_dict,
                      new_calls |-> r.new_calls, word_calls |-> r.word_calls]
                /\ ncalls' = ncalls + 1
                /\ UNCHANGED <<threads, captionVars, tagged, dictVars>>

\* ------------------------------------------------------------------------
\* translate_sub_words statement by statement, for requests served at the
\* same time.  A file is the tuple of JSON tokens on disk; a writer's
\* offset counts tokens.
\* ------------------------------------------------------------------------

\* The video and the requests of the concurrent runs.
RaceVideoDir == <<"cache", "v1">>
RaceWordLists == {words \in WordLists : \A i \in DOMAIN words : words[i][2] = "NOUN"}

\* write(chunk) at offset pos of a file: bytes beyond the end of a file that
\* another writer truncated are left as a hole.
WriteAt(content, pos, chunk) ==
    LET padded == content \o [i \in 1..(pos - Len(content)) |-> "hole"]
    IN  SubSeq(padded, 1, pos) \o chunk
            \o SubSeq(padded, pos + Len(chunk) + 1, Len(padded))

\* Lines 125-127: the thread enters with its arguments and computes the path.
Enter(t) ==
    /\ threads[t].pc \in {"idle", "returned", "raised"}
    /\ ncalls < MaxCalls
    /\ \E words \in RaceWordLists, langs \in {<<EN, ES>>} :
          threads' = [threads EXCEPT ![t] =
              [Idle EXCEPT !.pc = "exists", !.words = words,
                           !.src_lang = langs[1], !.dst_lang = langs[2],
                           !.path = cache_path(RaceVideoDir, words,
                                               langs[1], langs[2])]]
    /\ ncalls' = ncalls + 1
    /\ UNCHANGED <<cacheFiles, committed, resolved>>

\* Line 128: os.path.exists(cache_path).
Exists(t) ==
    /\ threads[t].pc = "exists"
    /\ threads' = [threads EXCEPT ![t].pc =
                      IF threads[t].path \in DOMAIN cacheFiles
                      THEN "read" ELSE "new"]
    /\ UNCHANGED <<cacheFiles, committed, resolved, ncalls>>

\* Lines 131-132: open the file and json.load it; a text that is not a
\* complete object raises JSONDecodeError out of the request.
Load(t) ==
    /\ threads[t].pc = "read"
    /\ LET d == json_load(cacheFiles[threads[t].path])
       IN  threads' = [threads EXCEPT
                ![t].pc = IF d = "JSONDecodeError" THEN "raised" ELSE "returned",
                ![t].trans_dict = d]
    /\ UNCHANGED <<cacheFiles, committed, resolved, ncalls>>

\* Lines 136-137: Translator.new and the empty dict.
New(t) ==
    /\ threads[t].pc = "new"
    /\ threads' = [threads EXCEPT
            ![t].pc = "loop",
            ![t].translator = Translator_new(threads[t].src_lang,
                                             threads[t].dst_lang),
            ![t].next = 1,
            ![t].trans_dict = <<>>]
    /\ UNCHANGED <<cacheFiles, committed, resolved, ncalls>>

\* Lines 138-142: one iteration of the loop.
Lookup(t) ==
    /\ threads[t].pc = "loop"
    /\ threads[t].next <= Len(threads[t].words)
    /\ \E answer \in Answers :
          LET word == threads[t].words[threads[t].next]
              r == Translator_word(threads[t].translator, word[1], word[2], answer)
          IN  threads' = [threads EXCEPT
                  ![t].next = @ + 1,
                  ![t].trans_dict = IF r.raised THEN @
                                    ELSE DictSet(@, word[1], r.value)]
    /\ UNCHANGED <<cacheFiles, committed, resolved, ncalls>>

\* Line 143: open(cache_path, 'w') creates the file, or truncates it.
Open(t) ==
    /\ threads[t].pc = "loop"
    /\ threads[t].next > Len(threads[t].words)
    /\ cacheFiles' = [p \in DOMAIN cacheFiles \cup {threads[t].path} |->
                        IF p = threads[t].path THEN <<>> ELSE cacheFiles[p]]
    /\ threads' = [threads EXCEPT
            ![t].pc = "write",
            ![t].out = json_dump(threads[t].trans_dict),
            ![t].pos = 0]
    /\ UNCHANGED <<committed, resolved, ncalls>>

\* Line 144: json.dump writes the text through the file's buffer, which
\* reaches the disk in one or more pieces.
Flush(t) ==
    /\ threads[t].pc = "write"
    /\ threads[t].pos < Len(threads[t].out)
    /\ \E n \in 1..(Len(threads[t].out) - threads[t].pos) :
          /\ cacheFiles' = [cacheFiles EXCEPT ![threads[t].path] =
                 WriteAt(@, threads[t].pos,
                         SubSeq(threads[t].out, threads[t].pos + 1,
                                threads[t].pos + n))]
          /\ threads' = [threads EXCEPT ![t].pos = @ + n]
    /\ UNCHANGED <<committed, resolved, ncalls>>

\* Lines 143-145: the with block ends, the file is closed, the dict returned.
Close(t) ==
    /\ threads[t].pc = "write"
    /\ threads[t].pos = Len(threads[t].out)
    /\ threads' = [threads EXCEPT ![t].pc = "returned"]
    /\ UNCHANGED <<cacheFiles, committed, resolved, ncalls>>

NextRace ==
    /\ \E t \in Threads :
          \/ Enter(t)
          \/ Exists(t)
          \/ Load(t)
          \/ New(t)
          \/ Lookup(t)
          \/ Open(t)
          \/ Flush(t)
          \/ Close(t)
    /\ UNCHANGED <<captionVars, tagged, dictVars>>

\* ------------------------------------------------------------------------
\* Caption tracks and their time stamps
\* ------------------------------------------------------------------------

\* A time stamp 'HH:MM:SS.mmm' is the tuple of its ':'-separated fields, the
\* last one <<SS, mmm>>.  A float of seconds is its value in thousandths.
Stamp(hh, mm, ss, mmm) == <<hh, mm, <<ss, mmm>> >>

\* parse_vtt_time(s)
parse_vtt_time(s) ==
    LET last == s[Len(s)]
        seconds == (1000 * last[1] + last[2]) + s[Len(s) - 1] * 60 * 1000
    IN  IF Len(s) = 3 THEN seconds + s[1] * 3600 * 1000 ELSE seconds

\* math.floor(t * 1000) in IEEE-754 double arithmetic, for the times of the
\* tracks below: the doubles nearest 1.001 and 2.002 times 1000 are
\* 1000.9999999999999 and 2001.9999999999998.
FloorTimes1000(t) ==
    CASE t = 1001 -> 1000
      [] t = 2002 -> 2001
      [] t \in {0, 1000, 2001, 2500, 3723004} -> t

\* format_vtt_time(t)
format_vtt_time(t) ==
    LET millis == FloorTimes1000(t) % 1000
        seconds == (t \div 1000) % 60
        minutes == (t \div (60 * 1000)) % 60
        hours == t \div (3600 * 1000)
    IN  Stamp(hours, minutes, seconds, millis)

\* read_vtt(path) on the track stored at the path.
read_vtt(track) ==
    [i \in DOMAIN track |->
        [start |-> parse_vtt_time(track[i].start),
         end |-> parse_vtt_time(track[i].end),
         text |-> track[i].text,
         tokens |-> None]]

\* str.strip()
RECURSIVE LStrip(_)
LStrip(text) ==
    IF text # <<>> /\ Head(text) = " " THEN LStrip(Tail(text)) ELSE text

RECURSIVE RStrip(_)
RStrip(text) ==
    IF text # <<>> /\ text[Len(text)] = " "
    THEN RStrip(SubSeq(text, 1, Len(text) - 1)) ELSE text

Strip(text) == RStrip(LStrip(text))

\* The native tracks of the video (video.<lang>.vtt): an English one of three
\* lines, the second blank.
NativeTracks ==
    EN :> << [start |-> Stamp(0, 0, 0, 0), end |-> Stamp(0, 0, 1, 1),
              text |-> <<" ", "h", "i">>],
             [start |-> Stamp(0, 0, 1, 1), end |-> Stamp(0, 0, 2, 500),
              text |-> <<" ", " ">>],
             [start |-> Stamp(0, 0, 2, 500), end |-> Stamp(1, 2, 3, 4),
              text |-> <<"y", "o", " ">>] >>

\* translator.phrase(text), the service answering `answer`.
Translator_phrase(translator, text, answer) ==
    IF answer = "raise"
    THEN [raised |-> TRUE, value |-> "ServiceError"]
    ELSE [raised |-> FALSE, value |-> <<translator.dst, text>>]

\* ------------------------------------------------------------------------
\* translate_sub_file
\* ------------------------------------------------------------------------

\* The loop of translate_sub_file over the remaining lines.
RECURSIVE TranslateLines(_, _, _, _)
TranslateLines(translator, lines, answers, dst_vtt) ==
    IF lines = <<>> THEN dst_vtt
    ELSE LET line == Head(lines)
             src_text == Strip(line.text)
             r == Translator_phrase(translator, src_text, Head(answers))
         IN  TranslateLines(translator, Tail(lines), Tail(answers),
                IF src_text # <<>> /\ ~r.raised
                THEN Append(dst_vtt, [start |-> format_vtt_time(line.start),
                                      end |-> format_vtt_time(line.end),
                                      text |-> r.value])
                ELSE dst_vtt)

\* The lines with text after strip().
NonBlank(lines) == {i \in DOMAIN lines : Strip(lines[i].text) # <<>>}

\* translate_sub_file(video_dir, src_lang, dst_lang) on the translated/
\* files `files`, the service answering answers[i] for line i.  Reading a
\* native track that does not exist raises before anything is written.
translate_sub_file(files, src_lang, dst_lang, answers) ==
    LET translator == Translator_new(src_lang, dst_lang)
    IN  IF src_lang \notin DOMAIN NativeTracks
        THEN [raised |-> TRUE, files |-> files, new_calls |-> 1, phrase_calls |-> 0]
        ELSE LET lines == read_vtt(NativeTracks[src_lang])
             IN  [raised |-> FALSE,
                  files |-> (dst_lang :> TranslateLines(translator, lines, answers, <<>>))
                               @@ files,
                  new_calls |-> 1,
                  phrase_calls |-> Cardinality(NonBlank(lines))]

\* ------------------------------------------------------------------------
\* The /captions route
\* ------------------------------------------------------------------------

\* Lines 253-259: tag the captions with the tagger of `lang` and answer.
Respond(files, captions, lang, new_calls, phrase_calls) ==
    LET tagger == Tagger_new(lang)
    IN  IF tagger.tagger = "Exception"
        THEN [status |-> 500, body |-> "Unsupported language", files |-> files,
              new_calls |-> new_calls, phrase_calls |-> phrase_calls]
        ELSE [status |-> 200,
              body |-> [i \in DOMAIN captions |->
                         [captions[i] EXCEPT !.tokens = <<tagger, captions[i].text>>]],
              files |-> files,
              new_calls |-> new_calls, phrase_calls |-> phrase_calls]

\* `not orig` for orig = request.args.get('orig'): the argument is absent
\* (None) or the empty string.
not_orig(args) == "orig" \notin DOMAIN args \/ args.orig = <<>>

\* captions(video) without the test of `orig`.
captions_without_orig_test(files, args, answers) ==
    LET lang == args.lang
    IN
    IF lang \in DOMAIN NativeTracks
    THEN Respond(files, read_vtt(NativeTracks[lang]), lang, 0, 0)
    ELSE IF lang \notin DOMAIN files
    THEN LET r == translate_sub_file(files,
                    IF "orig" \in DOMAIN args THEN args.orig ELSE <<>>,
                    lang, answers)
         IN  IF r.raised
             THEN [status |-> 500, body |-> "read_vtt", files |-> r.files,
                   new_calls |-> r.new_calls, phrase_calls |-> r.phrase_calls]
             ELSE Respond(r.files, read_vtt(r.files[lang]), lang,
                          r.new_calls, r.phrase_calls)
    ELSE Respond(files, read_vtt(files[lang]), lang, 0, 0)

\* captions(video) with the query arguments `args` of the request, on the
\* translated/ files `files`: the response and the files afterwards.
captions(files, args, answers) ==
    LET lang == args.lang
    IN
    IF lang \in DOMAIN NativeTracks
    THEN Respond(files, read_vtt(NativeTracks[lang]), lang, 0, 0)
    ELSE IF lang \notin DOMAIN files
    THEN IF not_orig(args)
         THEN [status |-> 400, body |-> "No original language to translate",
               files |-> files, new_calls |-> 0, phrase_calls |-> 0]
         ELSE LET r == translate_sub_file(files, args.orig, lang, answers)
              IN  IF r.raised
                  THEN [status |-> 500, body |-> "read_vtt", files |-> r.files,
                        new_calls |-> r.new_calls, phrase_calls |-> r.phrase_calls]
                  ELSE Respond(r.files, read_vtt(r.files[lang]), lang,
                               r.new_calls, r.phrase_calls)
    ELSE Respond(files, read_vtt(files[lang]), lang, 0, 0)

\* The arguments of /captions requests: a language with a native track, two
\* without (one of them without a tagger), and the `orig` hint absent, empty,
\* a language with a native track or one without.
RequestLangs == {EN, ES, KO}
RequestOrigs == {<<>>, EN, JA}
RequestArgs ==
    {[lang |-> l] : l \in RequestLangs}
        \cup {[lang |-> l, orig |-> o] : l \in RequestLangs, o \in RequestOrigs}

\* The service's answers for the lines of the track of `orig`; it is not
\* asked about a blank line.
PhraseAnswers(args) ==
    IF not_orig(args) \/ args.orig \notin DOMAIN NativeTracks THEN {<<>>}
    ELSE {a \in [DOMAIN NativeTracks[args.orig] -> Answers] :
            \A i \in DOMAIN a :
                i \notin NonBlank(NativeTracks[args.orig]) => a[i] = "raise"}

NoRequest ==
    [kind |-> "none", args |-> [lang |-> <<>>], answers |-> <<>>,
     native_exists |-> FALSE, translated_exists |-> FALSE,
     status |-> 0, body |-> <<>>, new_calls |-> 0, phrase_calls |-> 0]

InitCaptions ==
    /\ translated = NoFiles
    /\ served = NoRequest

\* One whole /captions request.
Captions ==
    \E args \in RequestArgs :
        \E answers \in PhraseAnswers(args) :
            LET r == captions(translated, args, answers)
            IN  /\ translated' = r.files
                /\ served' =
                     [kind |-> "request", args |-> args,
                      answers |-> answers,
                      native_exists |-> args.lang \in DOMAIN NativeTracks,
                      translated_exists |-> args.lang \in DOMAIN translated,
                      status |-> r.status, body |-> r.body,
                      new_calls |-> r.new_calls, phrase_calls |-> r.phrase_calls]
                /\ UNCHANGED <<cacheVars, tagged, dictVars>>

NextCaptions == Captions

\* ------------------------------------------------------------------------
\* Tagger.new on its own
\* ------------------------------------------------------------------------

\* Longest language code tried, besides those of LANGUAGES.
MaxCodeLen == 3

CodeChars == {"e", "n", "z", "h", "j", "a", "-"}

LangCodes ==
    LANGUAGES \cup UNION {[1..n -> CodeChars] : n \in 0..MaxCodeLen}

InitTagger == tagged = [kind |-> "none", lang |-> <<>>, made |-> <<>>]

NewTagger ==
    \E lang \in LangCodes :
        /\ tagged' = [kind |-> "call", lang |-> lang, made |-> Tagger_new(lang)]
        /\ UNCHANGED <<cacheVars, captionVars, dictVars>>

NextTagger == NewTagger

\* ------------------------------------------------------------------------
\* load_dictionary (nlp/translate.py)
\* ------------------------------------------------------------------------

\* Repeated load_dictionary requests in one behaviour.
MaxReloads == 2

\* maxsize of @lru_cache(25)
LruMaxSize == 25

\* max_len of load_jmdict
JmdictMaxLen == 15

\* The files of DICT_DIR, '<a>-<b>.txt' named <<a, b>>: both directions for
\* every two of six languages, both directions without an entry for nl and
\* en, pl-en.txt without en-pl.txt, and nothing for ko.
DictLangs == <<JA, EN, DE, FR, ES, IT>>

DictLines(a, b) ==
    IF NL \in {a, b}
    THEN << <<"#">>, <<" ", " ">> >>
    ELSE << a \o <<" ">> \o b,
            <<" ", "x", " ", " ">> \o b \o <<" ">>,
            <<"#">> >>

DICT_DIR ==
    LET names == {<<a, b>> \in Range(DictLangs) \X Range(DictLangs) : a # b}
                    \cup {<<NL, EN>>, <<EN, NL>>, <<PL, EN>>}
    IN  [name \in names |-> DictLines(name[1], name[2])]

\* JMdict.json: entries with kanji and reading elements and the glosses of
\* their senses; the first gloss of the second entry is 16 characters long.
JMdict ==
    << [k_ele |-> << <<"K">> >>, r_ele |-> << <<"r">>, <<"q">> >>,
        sense |-> << << <<" ", "g">>, <<"h">> >>, <<>> >>],
       [k_ele |-> <<>>, r_ele |-> << <<"s">> >>,
        sense |-> << << [i \in 1..16 |-> "l"] >>, << <<"m">> >> >>] >>

\* The pairs one sense yields: (k, g_0) for every kanji element, then
\* (r, g_0) for every reading element, when g_0 is short enough.
SensePairs(ent, s, max_len) ==
    IF Len(s) > 0 /\ Len(Strip(s[1])) <= max_len
    THEN [i \in DOMAIN ent.k_ele |-> <<Strip(ent.k_ele[i]), Strip(s[1])>>]
            \o [i \in DOMAIN ent.r_ele |-> <<Strip(ent.r_ele[i]), Strip(s[1])>>]
    ELSE <<>>

RECURSIVE EntryPairs(_, _, _)
EntryPairs(ent, senses, max_len) ==
    IF senses = <<>> THEN <<>>
    ELSE SensePairs(ent, Head(senses), max_len)
            \o EntryPairs(ent, Tail(senses), max_len)

\* load_jmdict(max_len): the pairs it yields, in order.
RECURSIVE load_jmdict_from(_, _)
load_jmdict_from(jmdict, max_len) ==
    IF jmdict = <<>> THEN <<>>
    ELSE EntryPairs(Head(jmdict), Head(jmdict).sense, max_len)
            \o load_jmdict_from(Tail(jmdict), max_len)

load_jmdict(max_len) == load_jmdict_from(JMdict, max_len)

\* DICT_RE.match(line) for DICT_RE = ^(.+)\s+(.+)$ : the first group is
\* greedy, so the line is split at its last whitespace character that has a
\* character on both sides.
DICT_RE_match(line) ==
    LET splits == {i \in 2..(Len(line) - 1) : line[i] = " "}
    IN  IF splits = {} THEN [matched |-> FALSE, group1 |-> <<>>, group2 |-> <<>>]
        ELSE LET i == CHOOSE i \in splits : \A j \in splits : j <= i
             IN  [matched |-> TRUE,
                  group1 |-> SubSeq(line, 1, i - 1),
                  group2 |-> SubSeq(line, i + 1, Len(line))]

\* dictionary[s].add(d) on a defaultdict(set)
DictAdd(dictionary, s, d) ==
    IF s \in DOMAIN dictionary
    THEN [dictionary EXCEPT ![s] = @ \cup {d}]
    ELSE (s :> {d}) @@ dictionary

\* Lines 63-68: the loop over the forward file.
RECURSIVE ReadForward(_, _)
ReadForward(lines, dictionary) ==
    IF lines = <<>> THEN dictionary
    ELSE LET m == DICT_RE_match(Strip(Head(lines)))
         IN  ReadForward(Tail(lines),
                IF m.matched THEN DictAdd(dictionary, m.group1, m.group2)
                ELSE dictionary)

\* Lines 76-81: the loop over the reverse file.
RECURSIVE ReadReverse(_, _)
ReadReverse(lines, dictionary) ==
    IF lines = <<>> THEN dictionary
    ELSE LET m == DICT_RE_match(Strip(Head(lines)))
         IN  ReadReverse(Tail(lines),
                IF m.matched THEN DictAdd(dictionary, m.group2, m.group1)
                ELSE dictionary)

\* Lines 87-88: the loop over load_jmdict().
RECURSIVE MergePairs(_, _)
MergePairs(pairs, dictionary) ==
    IF pairs = <<>> THEN dictionary
    ELSE MergePairs(Tail(pairs), DictAdd(dictionary, Head(pairs)[1], Head(pairs)[2]))

NoDictionary == <<>>

\* The body of load_dictionary without the test of the reverse file: a
\* missing reverse file is skipped.
build_dictionary_forward_only(src, dst) ==
    IF <<src, dst>> \notin DOMAIN DICT_DIR
    THEN [raised |-> "NotImplementedError", value |-> NoDictionary]
    ELSE LET forward == ReadForward(DICT_DIR[<<src, dst>>], NoDictionary)
             both == IF <<dst, src>> \in DOMAIN DICT_DIR
                     THEN ReadReverse(DICT_DIR[<<dst, src>>], forward)
                     ELSE forward
             dictionary == IF src = JA
                           THEN MergePairs(load_jmdict(JmdictMaxLen), both)
                           ELSE both
         IN  IF DOMAIN dictionary = {}
             THEN [raised |-> "AssertionError", value |-> NoDictionary]
             ELSE [raised |-> "none", value |-> dictionary]

\* The body of load_dictionary(src, dst): the exception raised, or the
\* dictionary returned.
build_dictionary(src, dst) ==
    IF <<src, dst>> \notin DOMAIN DICT_DIR
    THEN [raised |-> "NotImplementedError", value |-> NoDictionary]
    ELSE LET forward == ReadForward(DICT_DIR[<<src, dst>>], NoDictionary)
         IN  IF <<dst, src>> \notin DOMAIN DICT_DIR
             THEN [raised |-> "NotImplementedError", value |-> NoDictionary]
             ELSE LET both == ReadReverse(DICT_DIR[<<dst, src>>], forward)
                      dictionary == IF src = JA
                                    THEN MergePairs(load_jmdict(JmdictMaxLen), both)
                                    ELSE both
                  IN  IF DOMAIN dictionary = {}
                      THEN [raised |-> "AssertionError", value |-> NoDictionary]
                      ELSE [raised |-> "none", value |-> dictionary]

\* lru_cache on a hit that leaves the entry where it is.
LruHitKeepsOrder(cache, i) == cache

\* lru_cache on a hit of entry i: the entry becomes the most recent.
LruHit(cache, i) ==
    SubSeq(cache, 1, i - 1) \o SubSeq(cache, i + 1, Len(cache)) \o <<cache[i]>>

\* lru_cache on a miss whose call returned: the result is stored as the
\* most recent entry, in place of the least recent one when the cache is full.
LruMiss(cache, key, value) ==
    Append(IF Len(cache) >= LruMaxSize THEN Tail(cache) ELSE cache,
           [key |-> key, value |-> value])

\* load_dictionary(src, dst) through lru_cache, on the cache `cache`: an
\* exception leaves the cache as it was.
load_dictionary(cache, src, dst) ==
    LET key == <<src, dst>>
        hits == {i \in DOMAIN cache : cache[i].key = key}
    IN  IF hits # {}
        THEN LET i == CHOOSE i \in hits : TRUE
             IN  [cache |-> LruHit(cache, i), raised |-> "none",
                  value |-> cache[i].value, built |-> FALSE]
        ELSE LET r == build_dictionary(src, dst)
             IN  IF r.raised # "none"
                 THEN [cache |-> cache, raised |-> r.raised,
                       value |-> NoDictionary, built |-> FALSE]
                 ELSE [cache |-> LruMiss(cache, key, r.value), raised |-> "none",
                       value |-> r.value, built |-> TRUE]

\* The pairs requested, each for the first time in this order: four pairs
\* with a file missing or without entries, then every (src, dst) of
\* DictLangs.
LoadOrder ==
    << <<PL, EN>>, <<EN, PL>>, <<KO, EN>>, <<NL, EN>> >>
        \o [i \in 1..(Len(DictLangs) * Len(DictLangs)) |->
               <<DictLangs[((i - 1) \div Len(DictLangs)) + 1],
                 DictLangs[((i - 1) % Len(DictLangs)) + 1]>>]

\* The pairs requested again.
HotPairs == {<<PL, EN>>, <<JA, EN>>}

NoLoad ==
    [kind |-> "none", src |-> <<>>, dst |-> <<>>, raised |-> "none",
     value |-> NoDictionary, built |-> FALSE]

InitDict ==
    /\ lru = <<>>
    /\ loaded = NoLoad
    /\ builds = [key \in Range(LoadOrder) |-> 0]
    /\ uses = <<>>
    /\ nfresh = 0
    /\ nreloads = 0

\* One load_dictionary call: of the next pair of LoadOrder, or again of a
\* pair of HotPairs requested before.
LoadDictionary ==
    \E key \in (IF nfresh < Len(LoadOrder) THEN {LoadOrder[nfresh + 1]} ELSE {})
                \cup (IF nreloads < MaxReloads
                      THEN HotPairs \cap {LoadOrder[i] : i \in 1..nfresh}
                      ELSE {}) :
        LET r == load_dictionary(lru, key[1], key[2])
            again == key \in {LoadOrder[i] : i \in 1..nfresh}
        IN  /\ lru' = r.cache
            /\ loaded' = [kind |-> "call", src |-> key[1], dst |-> key[2],
                          raised |-> r.raised, value |-> r.value,
                          built |-> r.built]
            /\ builds' = IF r.built THEN [builds EXCEPT ![key] = @ + 1] ELSE builds
            /\ uses' = IF r.raised = "none" THEN Append(uses, key) ELSE uses
            /\ nfresh' = IF again THEN nfresh ELSE nfresh + 1
            /\ nreloads' = IF again THEN nreloads + 1 ELSE nreloads
            /\ UNCHANGED <<cacheVars, captionVars, tagged>>

NextDict == LoadDictionary

Init == InitCache /\ InitCaptions /\ InitTagger /\ InitDict

SpecDict == Init /\ [][NextDict]_vars

SpecRace == Init /\ [][NextRace]_vars

SpecCaptions == Init /\ [][NextCaptions]_vars

SpecTagger == Init /\ [][NextTagger]_vars

NextResolve == Resolve

SpecResolve == Init /\ [][NextResolve]_vars

\* ------------------------------------------------------------------------
\* Claims about translate_sub_words
\* ------------------------------------------------------------------------

\* The set of distinct word texts of a request.
TextSet(words) == {w[1] : w \in Range(words)}

\* The lookups of the last call that returned a translation.
Succeeded ==
    {i \in 1..Len(resolved.words) :
        ~Translator_word(Translator_new(resolved.src_lang, resolved.dst_lang),
                         resolved.words[i][1], resolved.words[i][2],
                         resolved.answers[i]).raised}

LookupValue(i) ==
    Translator_word(Translator_new(resolved.src_lang, resolved.dst_lang),
                    resolved.words[i][1], resolved.words[i][2],
                    resolved.answers[i]).value

\* C1: a call that finds a record at its cache path returns the dict the
\* writing call committed, calls neither Translator.new nor word, and leaves
\* every cache file as it was.
C1_CacheHitReturnsCommitted ==
    [][(ncalls' = ncalls + 1 /\ resolved'.path \in DOMAIN cacheFiles)
        => /\ resolved'.trans_dict = committed[resolved'.path].trans_dict
           /\ resolved'.new_calls = 0
           /\ resolved'.word_calls = 0
           /\ cacheFiles' = cacheFiles]_vars

\* A call answered from a record holding at least one translation.
C1_Witness ==
    /\ resolved.kind = "call"
    /\ resolved.cached
    /\ resolved.trans_dict # <<>>
    /\ resolved.words # <<>>

C3_KeyDependsOnTextSet ==
    resolved.kind = "call"
        => \A words \in WordLists :
              TextSet(words) = TextSet(resolved.words)
                 => cache_path(resolved.video_dir, words,
                               resolved.src_lang, resolved.dst_lang)
                      = resolved.path

\* A request answered from the record of a request that listed the same
\* texts differently (another order, or a text repeated).
C3_Witness ==
    /\ resolved.kind = "call"
    /\ resolved.cached
    /\ committed[resolved.path].texts = TextSet(resolved.words)
    /\ tokens_in_request_order(committed[resolved.path].words)
          # tokens_in_request_order(resolved.words)

\* C10: a call is answered only from a record written for the same set of
\* word texts.
C10_RecordIsForSameTexts ==
    (resolved.kind = "call" /\ resolved.cached)
        => committed[resolved.path].texts = TextSet(resolved.words)
\* C4: a request that found the record present reads a complete mapping.
C4_ReaderSeesCompleteRecord ==
    \A t \in Threads :
        threads[t].pc = "read" => JsonWellFormed(cacheFiles[threads[t].path])

\* ------------------------------------------------------------------------
\* Claims about translate_sub_file and the /captions route
\* ------------------------------------------------------------------------

\* The last request ran translate_sub_file to the end.
TrackWritten ==
    /\ served.kind = "request"
    /\ ~served.native_exists
    /\ ~served.translated_exists
    /\ ~not_orig(served.args)
    /\ served.args.orig \in DOMAIN NativeTracks

\* The lines of the source track translate_sub_file has to write for the
\* last request: those with text whose phrase translation succeeded, in
\* order, with the time stamps of the source.
RECURSIVE ExpectedLines(_, _, _)
ExpectedLines(source, answers, dst_lang) ==
    IF source = <<>> THEN <<>>
    ELSE (IF Strip(Head(source).text) # <<>> /\ Head(answers) = "ok"
          THEN << [start |-> Head(source).start, end |-> Head(source).end,
                   text |-> <<dst_lang, Strip(Head(source).text)>>] >>
          ELSE <<>>)
         \o ExpectedLines(Tail(source), Tail(answers), dst_lang)

\* C5: whatever the phrase translations do, translate_sub_file writes the
\* track, and the track holds one line per source line with text whose
\* translation succeeded, in source order, with the start and end time of
\* that source line.
C5_TrackKeepsTranslatedLines ==
    TrackWritten
        => /\ served.args.lang \in DOMAIN translated
           /\ translated[served.args.lang]
                 = ExpectedLines(NativeTracks[served.args.orig], served.answers,
                                 served.args.lang)

C9_TaggerExactlyForLanguages ==
    tagged.kind = "call"
        => ((tagged.made.tagger # "Exception") <=> (tagged.lang \in LANGUAGES))

\* C9 as the code has it: Tagger.new makes a tagger for every code of
\* LANGUAGES and for every other code that begins with "en" (the English
\* tagger) or "zh" (the Chinese tagger), and raises for all other codes.
C9_TaggerForLanguagesAndPrefixes ==
    tagged.kind = "call"
        => /\ (tagged.made.tagger # "Exception")
                <=> \/ tagged.lang \in LANGUAGES
                    \/ StartsWith(tagged.lang, <<"e", "n">>)
                    \/ StartsWith(tagged.lang, <<"z", "h">>)
           /\ (tagged.lang \notin LANGUAGES /\ StartsWith(tagged.lang, <<"e", "n">>))
                => tagged.made = [tagger |-> "SpacyTagger", model |-> <<"e", "n">>]
           /\ (tagged.lang \notin LANGUAGES /\ StartsWith(tagged.lang, <<"z", "h">>))
                => tagged.made.tagger = "ChineseTagger"

\* Tagger.new has made the Chinese tagger for "zh", a code outside LANGUAGES.
C9_Witness ==
    /\ tagged.kind = "call"
    /\ tagged.lang = ZH
    /\ tagged.lang \notin LANGUAGES
    /\ tagged.made.tagger = "ChineseTagger"

\* ------------------------------------------------------------------------
\* Claims about load_dictionary
\* ------------------------------------------------------------------------

\* The last n distinct pairs of the pairs returned so far.
RECURSIVE LastDistinct(_, _, _)
LastDistinct(us, n, acc) ==
    IF us = <<>> \/ Cardinality(acc) >= n THEN acc
    ELSE LastDistinct(SubSeq(us, 1, Len(us) - 1), n, acc \cup {us[Len(us)]})

\* C7 as stated: in one process the dictionary of a pair is built at most
\* once, whatever other pairs are loaded in between.
C7_BuiltAtMostOnce ==
    \A key \in DOMAIN builds : builds[key] <= 1

\* C7 as the code has it: a load of a pair that is among the 25 distinct
\* pairs most recently returned by load builds nothing and returns the
\* dictionary built for the pair before; a dictionary is built again only for
\* a pair that is not among them.
C7_RecentPairIsNotRebuilt ==
    [][(loaded'.kind = "call"
          /\ <<loaded'.src, loaded'.dst>> \in LastDistinct(uses, LruMaxSize, {}))
        => /\ ~loaded'.built
           /\ builds' = builds
           /\ loaded'.raised = "none"
           /\ loaded'.value = build_dictionary(loaded'.src, loaded'.dst).value]_vars

\* A pair loaded again from the full cache after more pairs than the cache
\* holds have been returned: it is still built once.
C7_Witness ==
    /\ loaded.kind = "call"
    /\ loaded.raised = "none"
    /\ ~loaded.built
    /\ Len(lru) = LruMaxSize
    /\ Cardinality(Range(uses)) > LruMaxSize
    /\ builds[<<loaded.src, loaded.dst>>] = 1

\* C8: load returns a dictionary only when the forward and the reverse file
\* of the pair both exist; when either is missing it raises the
\* missing-dictionary error and returns nothing.
C8_DictionaryNeedsBothFiles ==
    loaded.kind = "call"
        => /\ loaded.raised = "none"
                => /\ <<loaded.src, loaded.dst>> \in DOMAIN DICT_DIR
                   /\ <<loaded.dst, loaded.src>> \in DOMAIN DICT_DIR
                   /\ DOMAIN loaded.value # {}
           /\ (\/ <<loaded.src, loaded.dst>> \notin DOMAIN DICT_DIR
               \/ <<loaded.dst, loaded.src>> \notin DOMAIN DICT_DIR)
                => /\ loaded.raised = "NotImplementedError"
                   /\ DOMAIN loaded.value = {}

\* A load of a pair with the forward file only has raised.
C8_Witness ==
    /\ loaded.kind = "call"
    /\ <<loaded.src, loaded.dst>> \in DOMAIN DICT_DIR
    /\ <<loaded.dst, loaded.src>> \notin DOMAIN DICT_DIR
    /\ loaded.raised = "NotImplementedError"
====
